---- MODULE Spec2Model ----
(***************************************************************************)
(* Rs-Zip (src/main.rs): the LZ77 + Huffman compression pipeline, its     *)
(* token and tree serializers and the container written by menu option 1  *)
(* and read by menu option 2.                                             *)
(*                                                                        *)
(* Rust values are modelled as follows.                                   *)
(*   Vec<u8>, &[u8]      a sequence of numbers in 0..255 (index 0 of the  *)
(*                       code is index 1 here)                            *)
(*   (usize, usize, u8)  a tuple <<dist, len, next>>                      *)
(*   Option<T>           a sequence of length 0 (None) or 1 (Some)        *)
(*   Node                a record [freq, byte, left, right]               *)
(*   HashMap<u8, u32>    a function from the keys present to the counts   *)
(*   a panic             outcome = "panic": the operation is abandoned    *)
(* No function of the pipeline returns a Result: the only outcomes are a  *)
(* returned value ("ok") and a panic.                                     *)
(***************************************************************************)
EXTENDS Integers, Sequences, FiniteSets, TLC

\* ------------------------------------------------------------------ bounds
\* Longest input buffer per entry point, and the replayed token sequences.
MaxLzLen == 8
MaxHuffLen == 4
MaxPipeLen == 4
MaxTokens == 2
MaxDist == 2
MaxCopy == 2
\* How often menu option 1 is chosen on the same input file.
MaxRuns == 2

\* The run of zeros in the long input, which carries the scan past window_size.
PadLen == 1030
LzBytes == {0, 65}
HuffBytes == {65, 66, 67, 68}
PipeBytes == {65, 66}
ReplayBytes == {65}

SeqsUpTo(S, n) == UNION {[1..k -> S] : k \in 0..n}

\* AAAB, PadLen zeros, AAAA: the last AAA recurs at the very start of the
\* buffer, more than window_size bytes back, and right behind the scan.
LongInput ==
  <<65, 65, 65, 66>> \o [k \in 1..PadLen |-> 0] \o <<65, 65, 65, 65>>

\* ----------------------------------------------------------------- helpers
None == <<>>
Some(x) == <<x>>

Min(a, b) == IF a < b THEN a ELSE b
Max(a, b) == IF a > b THEN a ELSE b

IsPrefix(s, t) == Len(s) <= Len(t) /\ SubSeq(t, 1, Len(s)) = s

\* u32::to_le_bytes, for values below 2^31
to_le_bytes(n) ==
  << n % 256, (n \div 256) % 256, (n \div 65536) % 256, (n \div 16777216) % 256 >>

\* u32::from_le_bytes of the four bytes data[idx..idx+4] (idx counts from 0)
from_le_bytes(data, idx) ==
  data[idx + 1] + 256 * data[idx + 2] + 65536 * data[idx + 3]
    + 16777216 * data[idx + 4]

\* ------------------------------------------------------------------- state
VARIABLES
  entry,       \* the function under exercise: "pipeline", "huffman", "lz77", "replay"
  pc,          \* the statement the program is at
  outcome,     \* "running", "ok" or "panic"
  data,        \* the input buffer
  i,           \* lz77_compress: the scan position
  j,           \* lz77_compress: the window start under comparison
  match_len,   \* lz77_compress: the longest run found at i so far
  match_dist,  \* lz77_compress: its distance
  tokens,      \* the LZ77 token vector (lz77_compress's out, option 2's tokens)
  lz_serial,   \* the flat token bytes
  heap,        \* build_huffman_tree: the nodes in the BinaryHeap
  tree,        \* Option<Node>: the tree build_huffman_tree returned
  huff,        \* the packed Huffman payload
  orig_len,    \* the byte count huffman_compress returned / the header declares
  tree_bytes,  \* the serialized tree
  final_out,   \* the output file: the container the last compress run wrote
  runs,        \* how often option 1 ran
  filedata,    \* option 2: the bytes read
  dtree,       \* Option<Node>: the tree deserialize_tree returned
  t,           \* lz77_decompress: how many tokens were replayed
  out,         \* the decoder's output buffer
  overflow_checks  \* the build: TRUE panics on usize overflow (debug), FALSE wraps (release)

vars == << entry, pc, outcome, data, i, j, match_len, match_dist, tokens,
           lz_serial, heap, tree, huff,
           orig_len, tree_bytes, final_out, runs, filedata, dtree, t, out,
           overflow_checks >>

\* --------------------------------------------------------------- LZ77
window_size == 1024

\* The inner while loop of lz77_compress at window start w and position p
\* (both counted from 0): k grows while the loop condition holds, so the loop
\* leaves k at the first value for which it fails.
MatchRun(d, p, w) ==
  LET Continues(k) == p + k < Len(d) /\ d[w + k + 1] = d[p + k + 1]
  IN CHOOSE k \in 0..(Len(d) - p) :
       ~Continues(k) /\ \A m \in 0..(k - 1) : Continues(m)

\* if k > match_len { match_len = k; match_dist = i - j; } on the pair
\* best = <<match_len, match_dist>>, for the run k found at window start w.
keep_longer(best, k, p, w) == IF k > best[1] THEN <<k, p - w>> ELSE best

\* A variant of search_start that searches the whole buffer behind p.
search_start_unbounded(p) == 0

\* let search_start = if i >= window_size { i - window_size } else { 0 };
search_start(p) == IF p >= window_size THEN p - window_size ELSE 0

\* The tail of the outer loop's body at position p, with the search's result:
\* <<the token pushed, the next position>>.
emit_token(d, p, len, dist) ==
  IF len >= 3
  THEN << << dist, len, IF p + len < Len(d) THEN d[p + len + 1] ELSE 0 >>,
          p + len + 1 >>
  ELSE << <<0, 0, d[p + 1]>>, p + 1 >>

\* The copy loop of lz77_decompress, iterations lo..hi-1 in ascending order:
\* out.push(out[start + k]), each read seeing the bytes pushed before it.
\* start may be negative here: it stands for the wrapped usize 2^64 + start,
\* which is no index of o, as is start + k while that sum is negative.
\* Returns <<"ok", buffer>> or <<"panic", buffer>>. The range is walked in two
\* halves, one after the other, which keeps the evaluation shallow.
RECURSIVE CopyLoop(_, _, _, _)
CopyLoop(o, start, lo, hi) ==
  IF lo >= hi THEN <<"ok", o>>
  ELSE IF hi = lo + 1
       THEN IF start + lo < 0 \/ start + lo >= Len(o) THEN <<"panic", o>>
            ELSE <<"ok", Append(o, o[start + lo + 1])>>
       ELSE LET mid == (lo + hi) \div 2
                r == CopyLoop(o, start, lo, mid)
            IN IF r[1] = "panic" THEN r ELSE CopyLoop(r[2], start, mid, hi)

\* A variant of ReplayToken that copies the source range in one piece, so that
\* it cannot read bytes the copy itself produces.
ReplayTokenBulkCopy(o, tok, checked) ==
  IF tok[1] = 0 /\ tok[2] = 0 THEN <<"ok", Append(o, tok[3])>>
  ELSE LET start == Len(o) - tok[1]
       IN IF start < 0 \/ start + tok[2] > Len(o) THEN <<"panic", o>>
          ELSE <<"ok", Append(o \o SubSeq(o, start + 1, start + tok[2]), tok[3])>>

\* The body of lz77_decompress's loop for one token, given whether the build
\* checks arithmetic overflow (debug) or wraps (release).
ReplayToken(o, tok, checked) ==
  IF tok[1] = 0 /\ tok[2] = 0 THEN <<"ok", Append(o, tok[3])>>
  ELSE IF tok[1] > Len(o) /\ checked THEN <<"panic", o>>
  ELSE LET r == CopyLoop(o, Len(o) - tok[1], 0, tok[2])
       IN IF r[1] = "panic" THEN r ELSE <<"ok", Append(r[2], tok[3])>>

\* ------------------------------------------------------- token codec
RECURSIVE serialize_tokens(_, _)
serialize_tokens(toks, k) ==
  IF k > Len(toks) THEN <<>>
  ELSE to_le_bytes(toks[k][1]) \o to_le_bytes(toks[k][2]) \o <<toks[k][3]>>
         \o serialize_tokens(toks, k + 1)

serialize_lz(toks) == to_le_bytes(Len(toks)) \o serialize_tokens(toks, 1)

\* The loop of deserialize_lz; a slice or an index past the end panics.
RECURSIVE read_tokens(_, _, _, _)
read_tokens(d, idx, count, toks) ==
  IF count = 0 THEN <<"ok", toks>>
  ELSE IF idx + 4 > Len(d) THEN <<"panic", toks>>
  ELSE IF idx + 8 > Len(d) THEN <<"panic", toks>>
  ELSE IF idx + 8 >= Len(d) THEN <<"panic", toks>>
  ELSE read_tokens(d, idx + 9, count - 1,
         Append(toks, << from_le_bytes(d, idx), from_le_bytes(d, idx + 4), d[idx + 9] >>))

deserialize_lz(d) ==
  IF 4 > Len(d) THEN <<"panic", <<>>>>
  ELSE read_tokens(d, 4, from_le_bytes(d, 0), <<>>)

\* ------------------------------------------------------------- Huffman
Node(f, b, l, r) == [freq |-> f, byte |-> b, left |-> l, right |-> r]

Range(s) == {s[k] : k \in 1..Len(s)}

\* The counting loop of build_huffman_tree.
freq_map(d) == [b \in Range(d) |-> Cardinality({k \in 1..Len(d) : d[k] = b})]

Leaves(d) == {Node(freq_map(d)[b], Some(b), None, None) : b \in Range(d)}

\* Node::cmp orders by freq alone, reversed: BinaryHeap::pop returns a node of
\* least freq, and which one among equals depends on the order the HashMap
\* handed the leaves over, which differs from one HashMap to the next.
PopCandidates(h) == {n \in h : \A m \in h : n.freq <= m.freq}

\* A variant of build_codes that appends bit 0 on both edges.
RECURSIVE build_codes_left_bit(_, _)
build_codes_left_bit(node, prefix) ==
  IF node.byte # None THEN << <<node.byte[1], prefix>> >>
  ELSE (IF node.left # None
        THEN build_codes_left_bit(node.left[1], Append(prefix, FALSE)) ELSE <<>>)
       \o
       (IF node.right # None
        THEN build_codes_left_bit(node.right[1], Append(prefix, FALSE)) ELSE <<>>)

\* build_codes: the table.insert calls in the order they happen, <<byte, code>>.
RECURSIVE build_codes(_, _)
build_codes(node, prefix) ==
  IF node.byte # None THEN << <<node.byte[1], prefix>> >>
  ELSE (IF node.left # None
        THEN build_codes(node.left[1], Append(prefix, FALSE)) ELSE <<>>)
       \o
       (IF node.right # None
        THEN build_codes(node.right[1], Append(prefix, TRUE)) ELSE <<>>)

\* HashMap::get after those inserts: the last insert of a key wins.
table_get(inserts, b) ==
  LET hits == {k \in 1..Len(inserts) : inserts[k][1] = b}
  IN IF hits = {} THEN None
     ELSE Some(inserts[CHOOSE k \in hits : \A m \in hits : m <= k][2])

\* for &b in data { if let Some(code) = table.get(&b) { bits.extend(code) } }
RECURSIVE encode_bits(_, _, _)
encode_bits(d, inserts, k) ==
  IF k > Len(d) THEN <<>>
  ELSE LET code == table_get(inserts, d[k])
       IN (IF code = None THEN <<>> ELSE code[1]) \o encode_bits(d, inserts, k + 1)

\* The packing loop: current and count are u8 and a counter below 8.
RECURSIVE pack_bits(_, _, _, _, _)
pack_bits(bits, k, current, count, o) ==
  IF k > Len(bits)
  THEN IF count > 0
       THEN Append(o, (current * (2 ^ (8 - count))) % 256)
       ELSE o
  ELSE LET c == ((current * 2) % 256) + (IF bits[k] THEN 1 ELSE 0)
       IN IF count + 1 = 8
          THEN pack_bits(bits, k + 1, 0, 0, Append(o, c))
          ELSE pack_bits(bits, k + 1, c, count + 1, o)

\* huffman_compress after the tree is built: <<out, data.len()>>.
huffman_encode(d, tr) ==
  << pack_bits(encode_bits(d, build_codes(tr, <<>>), 1), 1, 0, 0, <<>>), Len(d) >>

\* for i in (0..8).rev() { bits.push(((byte >> i) & 1) == 1) }
byte_bits(b) == [k \in 1..8 |-> ((b \div (2 ^ (8 - k))) % 2) = 1]

RECURSIVE unpack_bits(_, _)
unpack_bits(d, k) ==
  IF k > Len(d) THEN <<>> ELSE byte_bits(d[k]) \o unpack_bits(d, k + 1)

\* The decoding loop of huffman_decompress: unwrap of a missing child panics.
RECURSIVE decode_walk(_, _, _, _, _, _)
decode_walk(bits, k, node, root, o, n) ==
  IF k > Len(bits) THEN <<"ok", o>>
  ELSE LET child == IF ~bits[k] THEN node.left ELSE node.right
       IN IF child = None THEN <<"panic", o>>
          ELSE IF child[1].byte # None
               THEN IF Len(o) + 1 = n
                    THEN <<"ok", Append(o, child[1].byte[1])>>
                    ELSE decode_walk(bits, k + 1, root, root, Append(o, child[1].byte[1]), n)
               ELSE decode_walk(bits, k + 1, child[1], root, o, n)

huffman_decompress(d, tr, n) == decode_walk(unpack_bits(d, 1), 1, tr, tr, <<>>, n)

\* A variant of serialize_tree that writes the right subtree first.
RECURSIVE serialize_tree_right_first(_)
serialize_tree_right_first(node) ==
  IF node.byte # None THEN <<1, node.byte[1]>>
  ELSE <<0>> \o serialize_tree_right_first(node.right[1])
             \o serialize_tree_right_first(node.left[1])

\* serialize_tree: pre-order, 1,<byte> for a leaf and 0,<left>,<right> otherwise.
RECURSIVE serialize_tree(_)
serialize_tree(node) ==
  IF node.byte # None THEN <<1, node.byte[1]>>
  ELSE <<0>> \o serialize_tree(node.left[1]) \o serialize_tree(node.right[1])

\* deserialize_tree: <<"ok", node, idx>> or <<"panic">>; data[*idx] past the
\* end panics, and every flag other than 1 reads an internal node.
RECURSIVE deserialize_tree(_, _)
deserialize_tree(d, idx) ==
  IF idx >= Len(d) THEN <<"panic">>
  ELSE IF d[idx + 1] = 1
       THEN IF idx + 1 >= Len(d) THEN <<"panic">>
            ELSE <<"ok", Node(0, Some(d[idx + 2]), None, None), idx + 2>>
       ELSE LET l == deserialize_tree(d, idx + 1)
            IN IF l[1] = "panic" THEN l
               ELSE LET r == deserialize_tree(d, l[3])
                    IN IF r[1] = "panic" THEN r
                       ELSE <<"ok", Node(0, None, Some(l[2]), Some(r[2])), r[3]>>

\* ------------------------------------------------------------- the program
Token == (0..MaxDist) \X (0..MaxCopy) \X ReplayBytes

\* The buffer the Huffman coder is given: the flat token bytes in the
\* pipeline (main.rs line 316), the input itself when it is called directly.
HuffInput == IF entry = "pipeline" THEN lz_serial ELSE data

Init ==
  /\ entry \in {"pipeline", "huffman", "lz77", "replay"}
  /\ overflow_checks \in BOOLEAN
  /\ data \in CASE entry = "pipeline" -> SeqsUpTo(PipeBytes, MaxPipeLen)
                [] entry = "huffman" -> SeqsUpTo(HuffBytes, MaxHuffLen)
                [] entry = "lz77" -> SeqsUpTo(LzBytes, MaxLzLen) \cup {LongInput}
                [] OTHER -> {<<>>}
  /\ tokens \in IF entry = "replay" THEN SeqsUpTo(Token, MaxTokens) ELSE {<<>>}
  /\ pc = CASE entry = "pipeline" -> "menu"
            [] entry = "huffman" -> "build_huffman_tree"
            [] entry = "lz77" -> "lz77_compress"
            [] OTHER -> "lz77_decompress"
  /\ outcome = "running"
  /\ i = 0
  /\ j = 0
  /\ match_len = 0
  /\ match_dist = 0
  /\ lz_serial = <<>>
  /\ heap = {}
  /\ tree = None
  /\ huff = <<>>
  /\ orig_len = 0
  /\ tree_bytes = <<>>
  /\ final_out = <<>>
  /\ runs = 0
  /\ filedata = <<>>
  /\ dtree = None
  /\ t = 0
  /\ out = <<>>

fixed == << entry, data, overflow_checks >>
search == << j, match_len, match_dist >>
files == << final_out, runs, filedata >>

\* A panic unwinds out of main: nothing is written.
Panic == outcome' = "panic" /\ pc' = "done"

\* Menu option 1 (main.rs 311-314): read the input and start lz77_compress.
ChooseCompress ==
  /\ pc = "menu" /\ runs < MaxRuns
  /\ pc' = "lz77_compress"
  /\ i' = 0 /\ j' = 0 /\ match_len' = 0 /\ match_dist' = 0 /\ tokens' = <<>> /\ lz_serial' = <<>> /\ heap' = {} /\ tree' = None
  /\ huff' = <<>> /\ orig_len' = 0 /\ tree_bytes' = <<>>
  /\ UNCHANGED << fixed, files, outcome, dtree, t, out >>

\* The head of lz77_compress's while loop at position i: the search starts.
Lz77CompressLoop ==
  /\ pc = "lz77_compress" /\ i < Len(data)
  /\ match_len' = 0 /\ match_dist' = 0
  /\ j' = search_start(i)
  /\ pc' = "lz77_search"
  /\ UNCHANGED << fixed, files, outcome, i, tokens, lz_serial, heap, tree, huff,
                  orig_len, tree_bytes, dtree, t, out >>

\* One iteration of for j in search_start..i.
Lz77SearchStep ==
  /\ pc = "lz77_search" /\ j < i
  /\ LET best == keep_longer(<<match_len, match_dist>>, MatchRun(data, i, j), i, j)
     IN match_len' = best[1] /\ match_dist' = best[2]
  /\ j' = j + 1
  /\ UNCHANGED << fixed, files, pc, outcome, i, tokens, lz_serial, heap, tree,
                  huff, orig_len, tree_bytes, dtree, t, out >>

\* The search is over: push the copy or the literal token and advance.
Lz77Emit ==
  /\ pc = "lz77_search" /\ j >= i
  /\ LET r == emit_token(data, i, match_len, match_dist)
     IN tokens' = Append(tokens, r[1]) /\ i' = r[2]
  /\ pc' = "lz77_compress"
  /\ UNCHANGED << fixed, files, search, outcome, lz_serial, heap, tree, huff,
                  orig_len, tree_bytes, dtree, t, out >>

\* lz77_compress returns its tokens: to serialize_lz in the pipeline, to
\* lz77_decompress when the round trip of the match finder alone is exercised.
Lz77CompressReturn ==
  /\ pc = "lz77_compress" /\ i >= Len(data)
  /\ pc' = IF entry = "lz77" THEN "lz77_decompress" ELSE "serialize_lz"
  /\ t' = 0 /\ out' = <<>>
  /\ UNCHANGED << fixed, search, files, outcome, i, tokens, lz_serial, heap, tree, huff,
                  orig_len, tree_bytes, dtree >>

SerializeLz ==
  /\ pc = "serialize_lz"
  /\ lz_serial' = serialize_lz(tokens)
  /\ pc' = "build_huffman_tree"
  /\ UNCHANGED << fixed, search, files, outcome, i, tokens, heap, tree, huff, orig_len,
                  tree_bytes, dtree, t, out >>

\* build_huffman_tree up to its merge loop: count, the one-symbol early
\* return, and the leaves pushed onto the heap.
BuildHuffmanTree ==
  /\ pc = "build_huffman_tree"
  /\ LET fm == freq_map(HuffInput)
     IN IF Cardinality(DOMAIN fm) = 1
        THEN LET b == CHOOSE x \in DOMAIN fm : TRUE
             IN /\ tree' = Some(Node(fm[b], Some(b), None, None))
                /\ heap' = {}
                /\ pc' = "huffman_compress"
        ELSE /\ heap' = Leaves(HuffInput)
             /\ tree' = None
             /\ pc' = "heap_merge"
  /\ UNCHANGED << fixed, search, files, outcome, i, tokens, lz_serial, huff, orig_len,
                  tree_bytes, dtree, t, out >>

\* One iteration of while heap.len() > 1: pop a, pop b, push their parent.
HeapMerge ==
  /\ pc = "heap_merge" /\ Cardinality(heap) > 1
  /\ \E a \in PopCandidates(heap) :
       \E b \in PopCandidates(heap \ {a}) :
         heap' = (heap \ {a, b})
                   \cup {Node(a.freq + b.freq, None, Some(a), Some(b))}
  /\ UNCHANGED << fixed, search, files, pc, outcome, i, tokens, lz_serial, tree, huff,
                  orig_len, tree_bytes, dtree, t, out >>

\* heap.pop().unwrap() after the loop: the root, or a panic on an empty heap.
HeapPopRoot ==
  /\ pc = "heap_merge" /\ Cardinality(heap) <= 1
  /\ IF heap = {}
     THEN Panic /\ UNCHANGED << heap, tree >>
     ELSE /\ tree' = Some(CHOOSE n \in heap : TRUE)
          /\ heap' = {}
          /\ pc' = "huffman_compress"
          /\ UNCHANGED outcome
  /\ UNCHANGED << fixed, search, files, i, tokens, lz_serial, huff, orig_len, tree_bytes,
                  dtree, t, out >>

\* The rest of huffman_compress: code table, bit string, packing.
HuffmanCompress ==
  /\ pc = "huffman_compress"
  /\ LET r == huffman_encode(HuffInput, tree[1])
     IN huff' = r[1] /\ orig_len' = r[2]
  /\ pc' = "serialize_tree"
  /\ UNCHANGED << fixed, search, files, outcome, i, tokens, lz_serial, heap, tree,
                  tree_bytes, dtree, t, out >>

SerializeTree ==
  /\ pc = "serialize_tree"
  /\ tree_bytes' = serialize_tree(tree[1])
  /\ pc' = IF entry = "pipeline" THEN "write" ELSE "deserialize_tree"
  /\ UNCHANGED << fixed, search, files, outcome, i, tokens, lz_serial, heap, tree, huff,
                  orig_len, dtree, t, out >>

\* main.rs 321-327: the header, the tree and the payload, written to the file.
Container(n, tb, payload) ==
  to_le_bytes(n) \o to_le_bytes(Len(tb)) \o tb \o payload

WriteContainer ==
  /\ pc = "write"
  /\ final_out' = Container(orig_len, tree_bytes, huff)
  /\ runs' = runs + 1
  /\ pc' = "menu"
  /\ UNCHANGED << fixed, search, outcome, i, tokens, lz_serial, heap, tree, huff, orig_len,
                  tree_bytes, filedata, dtree, t, out >>

\* main.rs 335-341 on the bytes fd: <<"ok", orig_len, tree_bytes, huff_data>>
\* or <<"panic">> when a slice runs past the end.
parse_header(fd) ==
  IF 4 > Len(fd) THEN <<"panic">>
  ELSE IF 8 > Len(fd) THEN <<"panic">>
  ELSE LET tree_size == from_le_bytes(fd, 4)
       IN IF 8 + tree_size > Len(fd) THEN <<"panic">>
          ELSE << "ok", from_le_bytes(fd, 0), SubSeq(fd, 9, 8 + tree_size),
                  SubSeq(fd, 9 + tree_size, Len(fd)) >>

\* Menu option 2 (main.rs 331-341) on the container option 1 wrote, or on a
\* copy of it cut short after n bytes.
ChooseDecompress ==
  /\ pc = "menu" /\ runs >= 1
  /\ \E n \in 0..Len(final_out) :
       LET fd == SubSeq(final_out, 1, n)
           h == parse_header(fd)
       IN /\ filedata' = fd
          /\ IF h[1] = "panic"
             THEN Panic /\ UNCHANGED << orig_len, tree_bytes, huff >>
             ELSE /\ orig_len' = h[2] /\ tree_bytes' = h[3] /\ huff' = h[4]
                  /\ pc' = "deserialize_tree"
                  /\ UNCHANGED outcome
  /\ i' = 0 /\ tokens' = <<>> /\ lz_serial' = <<>> /\ tree' = None
  /\ UNCHANGED << fixed, search, final_out, runs, heap, dtree, t, out >>

DeserializeTree ==
  /\ pc = "deserialize_tree"
  /\ LET r == deserialize_tree(tree_bytes, 0)
     IN IF r[1] = "panic"
        THEN Panic /\ UNCHANGED dtree
        ELSE dtree' = Some(r[2]) /\ pc' = "huffman_decompress" /\ UNCHANGED outcome
  /\ UNCHANGED << fixed, search, files, i, tokens, lz_serial, heap, tree, huff, orig_len,
                  tree_bytes, t, out >>

\* huffman_decompress: in the pipeline with the tree read from the file
\* (main.rs 344-345), called directly with the tree huffman_compress returned.
HuffmanDecompress ==
  /\ pc = "huffman_decompress"
  /\ LET tr == IF entry = "pipeline" THEN dtree[1] ELSE tree[1]
         r == huffman_decompress(huff, tr, orig_len)
     IN IF r[1] = "panic"
        THEN Panic /\ UNCHANGED << lz_serial, out >>
        ELSE IF entry = "pipeline"
             THEN lz_serial' = r[2] /\ pc' = "deserialize_lz"
                  /\ UNCHANGED << outcome, out >>
             ELSE out' = r[2] /\ pc' = "done" /\ outcome' = "ok"
                  /\ UNCHANGED lz_serial
  /\ UNCHANGED << fixed, search, files, i, tokens, heap, tree, huff, orig_len, tree_bytes,
                  dtree, t >>

DeserializeLz ==
  /\ pc = "deserialize_lz"
  /\ LET r == deserialize_lz(lz_serial)
     IN IF r[1] = "panic"
        THEN Panic /\ UNCHANGED << tokens, t, out >>
        ELSE tokens' = r[2] /\ t' = 0 /\ out' = <<>>
             /\ pc' = "lz77_decompress" /\ UNCHANGED outcome
  /\ UNCHANGED << fixed, search, files, i, lz_serial, heap, tree, huff, orig_len,
                  tree_bytes, dtree >>

\* One iteration of lz77_decompress's loop over the tokens.
Lz77DecompressStep ==
  /\ pc = "lz77_decompress" /\ t < Len(tokens)
  /\ LET r == ReplayToken(out, tokens[t + 1], overflow_checks)
     IN IF r[1] = "panic"
        THEN Panic /\ UNCHANGED << t, out >>
        ELSE out' = r[2] /\ t' = t + 1 /\ UNCHANGED << pc, outcome >>
  /\ UNCHANGED << fixed, search, files, i, tokens, lz_serial, heap, tree, huff, orig_len,
                  tree_bytes, dtree >>

\* lz77_decompress returns out (and main writes it, main.rs 349).
Lz77DecompressReturn ==
  /\ pc = "lz77_decompress" /\ t >= Len(tokens)
  /\ outcome' = "ok" /\ pc' = "done"
  /\ UNCHANGED << fixed, search, files, i, tokens, lz_serial, heap, tree, huff, orig_len,
                  tree_bytes, dtree, t, out >>

Next ==
  \/ ChooseCompress
  \/ Lz77CompressLoop
  \/ Lz77SearchStep
  \/ Lz77Emit
  \/ Lz77CompressReturn
  \/ SerializeLz
  \/ BuildHuffmanTree
  \/ HeapMerge
  \/ HeapPopRoot
  \/ HuffmanCompress
  \/ SerializeTree
  \/ WriteContainer
  \/ ChooseDecompress
  \/ DeserializeTree
  \/ HuffmanDecompress
  \/ DeserializeLz
  \/ Lz77DecompressStep
  \/ Lz77DecompressReturn

Spec == Init /\ [][Next]_vars

\* ------------------------------------------------------------ properties
Finished == pc = "done"

\* The position at which token n of toks was emitted, when every token before
\* it advanced the scan by its length plus one.
RECURSIVE TokenPos(_, _)
TokenPos(toks, n) ==
  IF n <= 1 THEN 0 ELSE TokenPos(toks, n - 1) + toks[n - 1][2] + 1

IsCopy(tok) == ~(tok[1] = 0 /\ tok[2] = 0)

\* C1: full pipeline round trip. Decoding the container option 1 wrote, as
\* option 2 does, ends normally and yields exactly the input buffer.
C1_PipelineRoundTrip ==
  (entry = "pipeline" /\ Finished /\ filedata = final_out)
    => (outcome = "ok" /\ out = data)

\* C2: LZ77-only round trip. lz77_decompress(lz77_compress(B)) = B.
C2_Lz77RoundTrip ==
  (entry = "lz77" /\ Finished) => (outcome = "ok" /\ out = data)

\* C3: Huffman-only round trip. huffman_decompress on what huffman_compress
\* returned for B yields B, the empty and the one-symbol buffer included.
C3_HuffmanRoundTrip ==
  (entry = "huffman" /\ Finished) => (outcome = "ok" /\ out = data)

\* C4: determinism. A compress run on the input of an earlier run is about to
\* write the very bytes the earlier run left in the output file, whatever
\* order the leaves reach the heap in and whichever node the heap pops among
\* nodes of equal frequency.
C4_Deterministic ==
  (pc = "write" /\ runs >= 1) => Container(orig_len, tree_bytes, huff) = final_out

\* C5: corruption rejection. Decoding a proper prefix of a valid container
\* ends in an explicit decode failure: neither a panic nor a returned buffer.
C5_TruncationRejected ==
  (entry = "pipeline" /\ Finished /\ filedata # final_out)
    => (outcome # "panic" /\ outcome # "ok")

\* C6: invalid back-reference rejection. lz77_decompress never gets past a
\* copy token whose distance exceeds the bytes output before it: no token
\* counted as replayed is such a token (a zero-length one included), so
\* nothing was appended for it and no buffer holding it is returned.
C6_InvalidBackReferenceRejected ==
  (pc \in {"lz77_decompress", "done"} /\ t >= 1 /\ IsCopy(tokens[t]))
    => tokens[t][1] <= Len(out) - tokens[t][2] - 1

\* C7: prefix-free code table. For a non-empty input, build_codes over the
\* built tree inserts exactly one code for every distinct byte of the input,
\* none for any other byte, and no code is a prefix of another symbol's code.
C7_PrefixFree ==
  (tree # None /\ HuffInput # <<>>) =>
    LET ins == build_codes(tree[1], <<>>)
        idx == 1..Len(ins)
    IN /\ \A b \in Range(HuffInput) :
            Cardinality({k \in idx : ins[k][1] = b}) = 1
       /\ \A k \in idx : ins[k][1] \in Range(HuffInput)
       /\ \A k, m \in idx : k # m => ~IsPrefix(ins[k][2], ins[m][2])

C7_Witness ==
  /\ tree # None
  /\ Cardinality(Range(HuffInput)) >= 4
  /\ \E k \in 1..Len(build_codes(tree[1], <<>>)) :
       Len(build_codes(tree[1], <<>>)[k][2]) >= 3

\* The tree without its frequencies: its shape and its leaf symbols.
RECURSIVE Shape(_)
Shape(node) ==
  IF node.left = None /\ node.right = None THEN <<"leaf", node.byte>>
  ELSE << "internal", node.byte,
          IF node.left = None THEN None ELSE Some(Shape(node.left[1])),
          IF node.right = None THEN None ELSE Some(Shape(node.right[1])) >>

\* C8: tree serialization round trip. deserialize_tree at cursor 0 on the
\* bytes serialize_tree wrote for a built tree returns a tree of the same
\* shape with the same symbol at every leaf.
C8_TreeRoundTrip ==
  (entry = "huffman" /\ tree # None /\ dtree # None)
    => Shape(dtree[1]) = Shape(tree[1])

C8_Witness ==
  /\ entry = "huffman" /\ tree # None /\ dtree # None
  /\ dtree[1].byte = None
  /\ dtree[1].left[1].byte = None \/ dtree[1].right[1].byte = None

\* The window starts w behind position p, and whether k bytes at w match the
\* k bytes at p.
WindowStarts(p) == Max(0, p - 1024)..(p - 1)
MatchesAt(d, p, w, k) == \A m \in 0..(k - 1) : d[w + m + 1] = d[p + m + 1]
Reaches(d, p, k) ==
  {w \in WindowStarts(p) : p + k <= Len(d) /\ MatchesAt(d, p, w, k)}

\* L: the largest k some window start reaches (0 when there is none).
LongestMatch(d, p) ==
  LET ks == {k \in 0..(Len(d) - p) : Reaches(d, p, k) # {}} \cup {0}
  IN CHOOSE k \in ks : \A m \in ks : m <= k

\* What C9 says of the token emitted at position p and of the next position.
GreedyToken(d, p, tok, nxt) ==
  LET L == LongestMatch(d, p)
  IN IF L >= 3
     THEN LET ws == Reaches(d, p, L)
              w0 == CHOOSE w \in ws : \A w2 \in ws : w <= w2
          IN /\ tok[2] = L
             /\ 1 <= tok[1] /\ tok[1] <= Min(p, 1024)
             /\ tok[1] = p - w0
             /\ tok[3] = (IF p + L = Len(d) THEN 0 ELSE d[p + L + 1])
             /\ nxt = p + L + 1
     ELSE tok = <<0, 0, d[p + 1]>> /\ nxt = p + 1

\* C9: greedy longest match. The token lz77_compress emitted last, at the
\* position the tokens before it lead to, is the copy token of the longest
\* window match when that match has 3 bytes or more (its distance that of the
\* smallest start reaching it) and the literal token otherwise, and the scan
\* moved on to the position the claim gives.
C9_GreedyLongestMatch ==
  (pc = "lz77_compress" /\ tokens # <<>>) =>
    GreedyToken(data, TokenPos(tokens, Len(tokens)), tokens[Len(tokens)], i)

\* A copy token was emitted past the first 1024 bytes, where a start that has
\* left the window matches as long as the start the token names.
C9_Witness ==
  /\ pc = "lz77_compress" /\ tokens # <<>>
  /\ LET p == TokenPos(tokens, Len(tokens))
         tok == tokens[Len(tokens)]
     IN /\ p > 1024 /\ tok[2] >= 3
        /\ \E w \in 0..(p - 1025) : MatchesAt(data, p, w, tok[2])

\* The last token is a copy token whose match ends at the last byte of B.
LastCopyEndsAtEnd ==
  /\ tokens # <<>>
  /\ IsCopy(tokens[Len(tokens)])
  /\ TokenPos(tokens, Len(tokens)) + tokens[Len(tokens)][2] = Len(data)

\* C10: replaying lz77_compress(B) yields B or B followed by one byte 0, the
\* latter exactly when the last token is a copy token whose match ends at the
\* last byte of B.
C10_ReplayBound ==
  (entry = "lz77" /\ Finished) =>
    /\ outcome = "ok"
    /\ IsPrefix(data, out)
    /\ Len(out) <= Len(data) + 1
    /\ (Len(out) = Len(data) + 1) <=> LastCopyEndsAtEnd
    /\ (Len(out) = Len(data) + 1) => out[Len(out)] = 0

C10_Witness ==
  /\ entry = "lz77" /\ Finished /\ outcome = "ok"
  /\ Len(out) = Len(data) + 1
  /\ tokens[Len(tokens)][2] > tokens[Len(tokens)][1]

====
